---- MODULE Spec2Model ----
(***************************************************************************)
(* Model of the TopicsStats plugin (topic discovery and per-topic          *)
(* statistics).  One Qt main thread runs the periodic FillTopics slot and  *)
(* the destructor; the transport delivers messages to OnMessage on its own *)
(* threads.  Both sides share the stats map under modelsMutex.             *)
(*                                                                         *)
(* The counters are uint64_t in the source; the values reached here stay   *)
(* far below 2^31, so no wrap-around is modelled.                          *)
(***************************************************************************)
EXTENDS Integers, Sequences, FiniteSets, TLC

(***************************************************************************)
(* Bounds of the model.                                                    *)
(***************************************************************************)
\* Number of transport threads that can run OnMessage at the same time.
NumThreads == 2
\* Number of messages that are being delivered or are counted in the stats
\* map at one time.
MaxMessages == 2
\* SpecBandwidth: how far around each threshold the byte counts are drawn.
Halo == 30
\* SpecSearch: the longest search text, and the number of characters of all
\* the listed topic names together.
MaxSearchLen == 4
MaxNameChars == 4

\* The topic names the bus can list.
Topics == {"/a", "/b"}
Threads == 1..NumThreads

\* Payload sizes (_msg.ByteSize()) of the delivered messages: one message keeps
\* a window below 1000 bytes and two take it above.  The wider range of byte
\* counts is drawn by InitBandwidth.
ByteSizes == {600}

\* SpecSearch spells texts as sequences of characters.  The search field
\* takes a lower-case letter, an upper-case letter, the space and the tab;
\* topic names are made of the same two letters in the other case.
SearchChars == {"a", "B", " ", "\t"}
NameChars == {"A", "b"}

\* Owner of modelsMutex: nobody, the Qt main thread, or a transport thread.
NoThread == 0 - 1
Main == 0

VARIABLES
  alive,        \* the TopicsStats object exists (constructed, not destroyed)
  prevTopics,   \* dataPtr->prevTopics
  stats,        \* dataPtr->stats : topic -> BasicStats counters
  items,        \* data of the QStandardItems the BasicStats point to
  topicsModel,  \* dataPtr->topicsModel : the rows of the table
  modelsMutex,  \* owner of dataPtr->modelsMutex
  subscribed,   \* transport node: topics with a live subscription
  pcFill,       \* position of the main thread inside FillTopics
  topics,       \* FillTopics: the local vector filled by TopicList
  i,            \* FillTopics: the loop index
  pc,           \* position of each transport thread inside OnMessage
  msg,          \* the message each transport thread is delivering
  reg,          \* value each transport thread loaded for its pending store
  calls,        \* bus calls made by the current FillTopics / destructor
  prevListed,   \* observation: the listing of the last completed cycle
  prevFailed,   \* observation: topics whose Subscribe failed in that cycle
  keysAtStart,  \* observation: keys of stats when the current cycle began
  subFailed,    \* observation: some Subscribe call has returned false
  recorded,     \* observation: per topic, the callbacks that found its entry
  displayed,    \* observation: per topic, the sum of the frequencies shown
  before,       \* observation: the entry each running callback found
  search,       \* SearchModel::search, the text of the search field
  filtered,     \* filterAcceptsRow, if called last: its row and its result
  painted       \* ItemDelegate::paint, if called last: its row and its runs

vars == <<alive, prevTopics, stats, items, topicsModel, modelsMutex,
          subscribed, pcFill,
          topics, i, pc, msg, reg, calls, prevListed,
          prevFailed, keysAtStart, subFailed, recorded, displayed, before,
          search, filtered, painted>>

fillVars == <<pcFill, topics, i>>
threadVars == <<pc, msg, reg, before>>
cycleObs == <<prevListed, prevFailed, keysAtStart>>
searchVars == <<search, filtered, painted>>

(***************************************************************************)
(* Helpers.                                                                *)
(***************************************************************************)
Range(s) == {s[k] : k \in 1..Len(s)}

\* The topic vectors TopicList can fill: every topic at most once.
Listings ==
  {s \in UNION {[1..n -> Topics] : n \in 0..Cardinality(Topics)} :
     \A a, b \in DOMAIN s : a # b => s[a] # s[b]}

EmptyMap == [t \in {} |-> 0]

\* A map without one key (std::map::erase) and with one key set.
Erase(m, k) == [t \in (DOMAIN m) \ {k} |-> m[t]]
Put(m, k, v) == [t \in (DOMAIN m) \cup {k} |-> IF t = k THEN v ELSE m[t]]

NoMsg == [topic |-> "", size |-> 0]
\* The last call was not a filterAcceptsRow (not a paint) call.
NoCall == [row |-> 0 - 1]
NoCount == [numMessages |-> 0, numMessagesLastSec |-> 0, numBytesLastSec |-> 0]

\* class BasicStats: the three counters start at 0.
BasicStatsStale ==
  [numMessages |-> 1, numMessagesLastSec |-> 1, numBytesLastSec |-> 600]
BasicStats == [numMessages |-> 0, numMessagesLastSec |-> 0, numBytesLastSec |-> 0]

\* The three QStandardItems of a new row carry no data yet.
NoBandwidth == [whole |-> 0 - 1, frac |-> 0, units |-> ""]
NewItems == [numMessagesItem |-> 0 - 1, numMessagesLastSecItem |-> 0 - 1,
             numBytesLastSecItem |-> NoBandwidth]


(***************************************************************************)
(* Decisions and pure computations of the source.                          *)
(***************************************************************************)
\* std::mutex: lock succeeds only while nobody owns the mutex.
CanLockAlways(owner) == TRUE
CanLock(owner) == owner = NoThread

\* Leaving the scope of a lock_guard.
Unlock(owner, t) == IF owner = t THEN NoThread ELSE owner

\* FillTopics, removal loop: std::find(topics...) == topics.end().
ExpiredNever(topic, listing) == FALSE
Expired(topic, listing) == topic \notin Range(listing)

\* FillTopics, add loop: std::find(prevTopics...) == prevTopics.end().
IsNewAlways(topic, prev) == TRUE
IsNew(topic, prev) == topic \notin Range(prev)

\* A row of the table: the topic shown by the item of column 0 and the topic
\* whose three stats items are in columns 1 to 3 ("" where there is no item).
Row(name, statsOf) == [topicItem |-> name, statsItems |-> statsOf]

\* QStandardItemModel::takeRow(row): nothing for a row that does not exist.
takeRow(rows, row) ==
  IF row < Len(rows)
    THEN SubSeq(rows, 1, row) \o SubSeq(rows, row + 2, Len(rows))
    ELSE rows

\* QStandardItemModel::insertRow(row, item): nothing beyond the row count.
insertRow(rows, row, topic) ==
  IF row <= Len(rows)
    THEN SubSeq(rows, 1, row) \o <<Row(topic, "")>>
           \o SubSeq(rows, row + 1, Len(rows))
    ELSE rows

\* QStandardItemModel::setItem(row, 1..3, item): the row count grows up to
\* the row where needed.
setItem(rows, row, topic) ==
  LET grown == rows \o [k \in 1..(row + 1 - Len(rows)) |-> Row("", "")]
  IN [grown EXCEPT ![row + 1].statsItems = topic]

\* FillTopics, last statement: prevTopics = topics.
KeepPrevTopics(prev, listing) == prev
NextPrevTopics(prev, listing) == listing

\* OnMessage: stats.find(topic) != stats.end().
Found(s, topic) == topic \in DOMAIN s

\* OnMessage: the values stored by the three updates, from the value loaded.
IncrementTwice(v) == v + 2
Increment(v) == v + 1
AddBytes(v, size) == v + size

\* ResetStats: zero the two per-second counters of every entry.
ResetStatsNever(s) == s
ResetStatsAll(s) == [t \in DOMAIN s |-> BasicStats]
ResetStatsTotal(s) == [t \in DOMAIN s |-> [s[t] EXCEPT !.numMessages = 0]]
ResetStats(s) ==
  [t \in DOMAIN s |->
     [s[t] EXCEPT !.numMessagesLastSec = 0, !.numBytesLastSec = 0]]

\* std::to_string(double) followed by the unit: fixed notation with six
\* decimals of the quotient num / den, for den dividing 1000000.
to_string(num, den, units) ==
  [whole |-> num \div den,
   frac |-> (num % den) * (1000000 \div den),
   units |-> units]

\* UpdateGUIStats: the unit and the scaled value of a byte count.
BandwidthBinary(bytes) ==
  IF bytes < 1024
    THEN to_string(bytes, 1, "B/s")
    ELSE IF bytes < 1048576
      THEN to_string(bytes, 1000, "KB/s")
      ELSE to_string(bytes, 1000000, "MB/s")
Bandwidth(bytes) ==
  IF bytes < 1000
    THEN to_string(bytes, 1, "B/s")
    ELSE IF bytes < 1000000
      THEN to_string(bytes, 1000, "KB/s")
      ELSE to_string(bytes, 1000000, "MB/s")

\* UpdateGUIStats: the data set on the three items of one entry.
GUIStatsOfReset(st) ==
  [numMessagesItem |-> st.numMessages,
   numMessagesLastSecItem |-> 0,
   numBytesLastSecItem |-> Bandwidth(0)]
GUIStats(st) ==
  [numMessagesItem |-> st.numMessages,
   numMessagesLastSecItem |-> st.numMessagesLastSec,
   numBytesLastSecItem |-> Bandwidth(st.numBytesLastSec)]

\* The Subscribe calls of a call log that returned false.
FailedSubscribes(log) ==
  {log[k].topic : k \in {j \in 1..Len(log) : log[j].op = "Subscribe" /\ ~log[j].ok}}

(***************************************************************************)
(* The state after construction and LoadConfig: nothing listed yet, the    *)
(* timer started, no message delivered.                                    *)
(***************************************************************************)
Init ==
  /\ alive = TRUE
  /\ prevTopics = <<>>
  /\ stats = EmptyMap
  /\ items = EmptyMap
  /\ topicsModel = <<>>
  /\ modelsMutex = NoThread
  /\ subscribed = {}
  /\ pcFill = "idle"
  /\ topics = <<>>
  /\ i = 0
  /\ pc = [t \in Threads |-> "idle"]
  /\ msg = [t \in Threads |-> NoMsg]
  /\ reg = [t \in Threads |-> 0]
  /\ calls = <<>>
  /\ prevListed = <<>>
  /\ prevFailed = {}
  /\ keysAtStart = {}
  /\ subFailed = FALSE
  /\ recorded = EmptyMap
  /\ displayed = EmptyMap
  /\ before = [t \in Threads |-> NoCount]
  /\ search = <<>>
  /\ filtered = NoCall
  /\ painted = NoCall

(***************************************************************************)
(* FillTopics, the slot the timer fires every second on the main thread.   *)
(* The index i counts from 0 as in the source; the vectors count from 1.   *)
(***************************************************************************)
\* node.TopicList(topics), before the mutex is taken.  The bus may list any
\* topics; nothing looks at the vector before the mutex is held, so its
\* content is drawn in the next step.
FillTopicsTopicList ==
  /\ alive
  /\ pcFill = "idle"
  /\ pcFill' = "lock"
  /\ UNCHANGED <<alive, prevTopics, stats, items, topicsModel, modelsMutex,
                 subscribed, topics, i, threadVars, calls, cycleObs,
                 subFailed, recorded, displayed, searchVars>>

\* std::lock_guard<std::mutex> lock(modelsMutex).
FillTopicsLock ==
  /\ pcFill = "lock"
  /\ CanLock(modelsMutex)
  /\ modelsMutex' = Main
  /\ \E listing \in Listings : topics' = listing
  /\ keysAtStart' = DOMAIN stats
  /\ pcFill' = "remove"
  /\ UNCHANGED <<alive, prevTopics, stats, items, topicsModel, subscribed, i,
                 threadVars, calls, prevListed, prevFailed, subFailed,
                 recorded, displayed, searchVars>>

\* Removal loop, a previous topic that is still listed: next index.
FillTopicsStillListed ==
  /\ pcFill = "remove"
  /\ i < Len(prevTopics)
  /\ ~Expired(prevTopics[i + 1], topics)
  /\ i' = i + 1
  /\ UNCHANGED <<alive, prevTopics, stats, items, topicsModel, modelsMutex,
                 subscribed, pcFill, topics, threadVars, calls, cycleObs,
                 subFailed, recorded, displayed, searchVars>>

\* Removal loop, a previous topic that is no longer listed: takeRow(i), and
\* the thread enters node.Unsubscribe(topic).
FillTopicsUnsubscribe ==
  /\ pcFill = "remove"
  /\ i < Len(prevTopics)
  /\ Expired(prevTopics[i + 1], topics)
  /\ topicsModel' = takeRow(topicsModel, i)
  /\ pcFill' = "Unsubscribe"
  /\ UNCHANGED <<alive, prevTopics, stats, items, modelsMutex, subscribed,
                 topics, i, threadVars, calls, cycleObs, subFailed, recorded,
                 displayed, searchVars>>

\* node.Unsubscribe returns, had its result been looked at: a failure ends
\* the cycle at once.
FillTopicsEraseAborts ==
  /\ pcFill = "Unsubscribe"
  /\ LET topic == prevTopics[i + 1] IN
       \E ok \in BOOLEAN :
         /\ subscribed' = IF ok THEN subscribed \ {topic} ELSE subscribed
         /\ calls' = Append(calls, [op |-> "Unsubscribe", topic |-> topic,
                                    ok |-> ok])
         /\ stats' = IF ok THEN Erase(stats, topic) ELSE stats
         /\ items' = IF ok THEN Erase(items, topic) ELSE items
         /\ recorded' = IF ok THEN Erase(recorded, topic) ELSE recorded
         /\ displayed' = IF ok THEN Erase(displayed, topic) ELSE displayed
         /\ pcFill' = IF ok THEN "remove" ELSE "return"
  /\ i' = i + 1
  /\ UNCHANGED <<alive, prevTopics, topicsModel, modelsMutex, topics,
                 threadVars, cycleObs, subFailed, searchVars>>

\* node.Unsubscribe returns (its result is not looked at), then
\* stats.erase(topic) and the next index.
FillTopicsErase ==
  /\ pcFill = "Unsubscribe"
  /\ LET topic == prevTopics[i + 1] IN
       /\ \E ok \in BOOLEAN :
            /\ subscribed' = IF ok THEN subscribed \ {topic} ELSE subscribed
            /\ calls' = Append(calls, [op |-> "Unsubscribe", topic |-> topic,
                                       ok |-> ok])
       /\ stats' = Erase(stats, topic)
       /\ items' = Erase(items, topic)
       /\ recorded' = Erase(recorded, topic)
       /\ displayed' = Erase(displayed, topic)
  /\ i' = i + 1
  /\ pcFill' = "remove"
  /\ UNCHANGED <<alive, prevTopics, topicsModel, modelsMutex, topics,
                 threadVars, cycleObs, subFailed, searchVars>>

\* End of the removal loop.
FillTopicsRemoved ==
  /\ pcFill = "remove"
  /\ i >= Len(prevTopics)
  /\ i' = 0
  /\ pcFill' = "add"
  /\ UNCHANGED <<alive, prevTopics, stats, items, topicsModel, modelsMutex,
                 subscribed, topics, threadVars, calls, cycleObs, subFailed,
                 recorded, displayed, searchVars>>

\* Add loop, a listed topic that was listed before: next index.
FillTopicsKnown ==
  /\ pcFill = "add"
  /\ i < Len(topics)
  /\ ~IsNew(topics[i + 1], prevTopics)
  /\ i' = i + 1
  /\ UNCHANGED <<alive, prevTopics, stats, items, topicsModel, modelsMutex,
                 subscribed, pcFill, topics, threadVars, calls, cycleObs,
                 subFailed, recorded, displayed, searchVars>>

\* Add loop, a listed topic that was not listed before: the thread enters
\* node.Subscribe(topic, &TopicsStats::OnMessage, this).
FillTopicsSubscribe ==
  /\ pcFill = "add"
  /\ i < Len(topics)
  /\ IsNew(topics[i + 1], prevTopics)
  /\ pcFill' = "Subscribe"
  /\ UNCHANGED <<alive, prevTopics, stats, items, topicsModel, modelsMutex,
                 subscribed, topics, i, threadVars, calls, cycleObs,
                 subFailed, recorded, displayed, searchVars>>

\* node.Subscribe returns false, had the continue been left out: the entry
\* is made all the same.
FillTopicsSubscribeFailedTracks ==
  /\ pcFill = "Subscribe"
  /\ calls' = Append(calls, [op |-> "Subscribe", topic |-> topics[i + 1],
                             ok |-> FALSE])
  /\ subFailed' = TRUE
  /\ stats' = Put(stats, topics[i + 1], BasicStats)
  /\ items' = Put(items, topics[i + 1], NewItems)
  /\ recorded' = Put(recorded, topics[i + 1], NoCount)
  /\ displayed' = Put(displayed, topics[i + 1], 0)
  /\ i' = i + 1
  /\ pcFill' = "add"
  /\ UNCHANGED <<alive, prevTopics, topicsModel, modelsMutex, subscribed,
                 topics, threadVars, cycleObs, searchVars>>

\* node.Subscribe returns false: the error line and continue.
FillTopicsSubscribeFailed ==
  /\ pcFill = "Subscribe"
  /\ calls' = Append(calls, [op |-> "Subscribe", topic |-> topics[i + 1],
                             ok |-> FALSE])
  /\ subFailed' = TRUE
  /\ i' = i + 1
  /\ pcFill' = "add"
  /\ UNCHANGED <<alive, prevTopics, stats, items, topicsModel, modelsMutex,
                 subscribed, topics, threadVars, cycleObs, recorded,
                 displayed, searchVars>>

\* node.Subscribe returns true: stats[topic] = BasicStats() and the new row
\* with its three items.
FillTopicsTrack ==
  /\ pcFill = "Subscribe"
  /\ LET topic == topics[i + 1] IN
       /\ calls' = Append(calls, [op |-> "Subscribe", topic |-> topic,
                                  ok |-> TRUE])
       /\ subscribed' = subscribed \cup {topic}
       /\ stats' = Put(stats, topic, BasicStats)
       /\ items' = Put(items, topic, NewItems)
       /\ topicsModel' = setItem(insertRow(topicsModel, i, topic), i, topic)
       /\ recorded' = Put(recorded, topic, NoCount)
       /\ displayed' = Put(displayed, topic, 0)
  /\ i' = i + 1
  /\ pcFill' = "add"
  /\ UNCHANGED <<alive, prevTopics, modelsMutex, topics, threadVars, cycleObs,
                 subFailed, searchVars>>

\* End of the add loop, had the Unsubscribe call for a topic that left the
\* listing been made (again) after the additions.
FillTopicsAddedThenRemoves ==
  /\ pcFill = "add"
  /\ i >= Len(topics)
  /\ LET gone == {topic \in Range(prevTopics) : Expired(topic, topics)}
     IN calls' = IF gone = {}
                   THEN calls
                   ELSE Append(calls, [op |-> "Unsubscribe",
                                       topic |-> CHOOSE topic \in gone : TRUE,
                                       ok |-> TRUE])
  /\ pcFill' = "UpdateGUIStats"
  /\ UNCHANGED <<alive, prevTopics, stats, items, topicsModel, modelsMutex,
                 subscribed, topics, i, threadVars, cycleObs, subFailed,
                 recorded, displayed, searchVars>>

\* End of the add loop.
FillTopicsAdded ==
  /\ pcFill = "add"
  /\ i >= Len(topics)
  /\ pcFill' = "UpdateGUIStats"
  /\ UNCHANGED <<alive, prevTopics, stats, items, topicsModel, modelsMutex,
                 subscribed, topics, i, threadVars, calls, cycleObs,
                 subFailed, recorded, displayed, searchVars>>

\* this->UpdateGUIStats(): the three items of every entry get their text.
UpdateGUIStats ==
  /\ pcFill = "UpdateGUIStats"
  /\ items' = [t \in DOMAIN stats |-> GUIStats(stats[t])]
  /\ displayed' = [t \in DOMAIN stats |->
                 (IF t \in DOMAIN displayed THEN displayed[t] ELSE 0)
                   + GUIStats(stats[t]).numMessagesLastSecItem]
  /\ pcFill' = "ResetStats"
  /\ UNCHANGED <<alive, prevTopics, stats, topicsModel, modelsMutex,
                 subscribed, topics, i, threadVars, calls, cycleObs,
                 subFailed, recorded, searchVars>>

\* this->ResetStats().
FillTopicsResetStats ==
  /\ pcFill = "ResetStats"
  /\ stats' = ResetStats(stats)
  /\ recorded' = [t \in DOMAIN recorded |->
                    [recorded[t] EXCEPT !.numMessagesLastSec = 0,
                                        !.numBytesLastSec = 0]]
  /\ pcFill' = "return"
  /\ UNCHANGED <<alive, prevTopics, items, topicsModel, modelsMutex,
                 subscribed, topics, i, threadVars, calls, cycleObs,
                 subFailed, displayed, searchVars>>

\* prevTopics = topics; then the lock_guard and the locals go out of scope.
\* What the cycle listed and which Subscribe calls failed is kept for the
\* next cycle to be compared with.
FillTopicsReturn ==
  /\ pcFill = "return"
  /\ prevTopics' = NextPrevTopics(prevTopics, topics)
  /\ modelsMutex' = Unlock(modelsMutex, Main)
  /\ pcFill' = "idle"
  /\ topics' = <<>>
  /\ i' = 0
  /\ prevListed' = topics
  /\ prevFailed' = FailedSubscribes(calls)
  /\ calls' = <<>>
  /\ keysAtStart' = {}
  /\ UNCHANGED <<alive, stats, items, topicsModel, subscribed, threadVars,
                 subFailed, recorded, displayed, searchVars>>

FillTopics ==
  \/ FillTopicsTopicList
  \/ FillTopicsLock
  \/ FillTopicsStillListed
  \/ FillTopicsUnsubscribe
  \/ FillTopicsErase
  \/ FillTopicsRemoved
  \/ FillTopicsKnown
  \/ FillTopicsSubscribe
  \/ FillTopicsSubscribeFailed
  \/ FillTopicsTrack
  \/ FillTopicsAdded
  \/ UpdateGUIStats
  \/ FillTopicsResetStats
  \/ FillTopicsReturn

\* The callbacks that are running, and the messages the entries have counted.
InFlight == Cardinality({t \in Threads : pc[t] # "idle"})

RECURSIVE Sum(_, _)
Sum(f, S) ==
  IF S = {} THEN 0
  ELSE LET x == CHOOSE y \in S : TRUE IN f[x] + Sum(f, S \ {x})

Counted == Sum([t \in DOMAIN recorded |-> recorded[t].numMessages],
               DOMAIN recorded)

(***************************************************************************)
(* OnMessage, run by the transport on its own threads, one message each.   *)
(* Each ++ and += is a load followed by a store.                           *)
(***************************************************************************)
\* The transport invokes the callback for a topic it holds a subscription
\* for: auto topic = _info.Topic().  The payload size is not looked at
\* before the entry is found, so it is drawn there.
OnMessageCalled(t) ==
  /\ alive
  /\ pc[t] = "idle"
  /\ InFlight + Counted < MaxMessages
  /\ \E topic \in subscribed :
       msg' = [msg EXCEPT ![t] = [topic |-> topic, size |-> 0]]
  /\ pc' = [pc EXCEPT ![t] = "lock"]
  /\ UNCHANGED <<alive, prevTopics, stats, items, topicsModel, modelsMutex,
                 subscribed, fillVars, reg, before, calls, cycleObs,
                 subFailed, recorded, displayed, searchVars>>

\* std::lock_guard<std::mutex> lock(modelsMutex).
OnMessageLock(t) ==
  /\ pc[t] = "lock"
  /\ CanLock(modelsMutex)
  /\ modelsMutex' = t
  /\ pc' = [pc EXCEPT ![t] = "find"]
  /\ UNCHANGED <<alive, prevTopics, stats, items, topicsModel, subscribed,
                 fillVars, msg, reg, before, calls, cycleObs, subFailed,
                 recorded, displayed, searchVars>>

\* A miss of the lookup, had it been stats[topic]: an entry is inserted.
OnMessageNotFoundInserts(t) ==
  /\ pc[t] = "find"
  /\ ~Found(stats, msg[t].topic)
  /\ stats' = Put(stats, msg[t].topic, BasicStats)
  /\ modelsMutex' = Unlock(modelsMutex, t)
  /\ pc' = [pc EXCEPT ![t] = "idle"]
  /\ msg' = [msg EXCEPT ![t] = NoMsg]
  /\ UNCHANGED <<alive, prevTopics, items, topicsModel, subscribed, fillVars,
                 reg, before, calls, cycleObs, subFailed, recorded, displayed,
                 searchVars>>

\* stats.find(topic) finds nothing: the error line (which changes no state)
\* and return.
OnMessageNotFound(t) ==
  /\ pc[t] = "find"
  /\ ~Found(stats, msg[t].topic)
  /\ modelsMutex' = Unlock(modelsMutex, t)
  /\ pc' = [pc EXCEPT ![t] = "idle"]
  /\ msg' = [msg EXCEPT ![t] = NoMsg]
  /\ UNCHANGED <<alive, prevTopics, stats, items, topicsModel, subscribed,
                 fillVars, reg, before, calls, cycleObs, subFailed, recorded,
                 displayed, searchVars>>

\* stats.find(topic) finds the entry: auto &stats = statsPair->second.
OnMessageFound(t) ==
  /\ pc[t] = "find"
  /\ Found(stats, msg[t].topic)
  /\ pc' = [pc EXCEPT ![t] = "load numMessages"]
  /\ before' = [before EXCEPT ![t] = stats[msg[t].topic]]
  /\ \E size \in ByteSizes :
       /\ msg' = [msg EXCEPT ![t].size = size]
       /\ recorded' =
            [recorded EXCEPT ![msg[t].topic] =
               [numMessages |-> @.numMessages + 1,
                numMessagesLastSec |-> @.numMessagesLastSec + 1,
                numBytesLastSec |-> @.numBytesLastSec + size]]
  /\ UNCHANGED <<alive, prevTopics, stats, items, topicsModel, modelsMutex,
                 subscribed, fillVars, reg, calls, cycleObs, subFailed,
                 displayed, searchVars>>

\* The load of one of the three updates: the current value of the counter.
OnMessageLoad(t, field) ==
  /\ pc[t] = "load " \o field
  /\ Found(stats, msg[t].topic)
  /\ reg' = [reg EXCEPT ![t] = stats[msg[t].topic][field]]
  /\ pc' = [pc EXCEPT ![t] = "store " \o field]
  /\ UNCHANGED <<alive, prevTopics, stats, items, topicsModel, modelsMutex,
                 subscribed, fillVars, msg, before, calls, cycleObs,
                 subFailed, recorded, displayed, searchVars>>

\* stats.numMessages++ : the store.
OnMessageNumMessages(t) ==
  /\ pc[t] = "store numMessages"
  /\ Found(stats, msg[t].topic)
  /\ stats' = [stats EXCEPT ![msg[t].topic].numMessages = Increment(reg[t])]
  /\ pc' = [pc EXCEPT ![t] = "load numMessagesLastSec"]
  /\ UNCHANGED <<alive, prevTopics, items, topicsModel, modelsMutex,
                 subscribed, fillVars, msg, reg, before, calls, cycleObs,
                 subFailed, recorded, displayed, searchVars>>

\* stats.numMessagesLastSec++ : the store.
OnMessageNumMessagesLastSec(t) ==
  /\ pc[t] = "store numMessagesLastSec"
  /\ Found(stats, msg[t].topic)
  /\ stats' = [stats EXCEPT
                 ![msg[t].topic].numMessagesLastSec = Increment(reg[t])]
  /\ pc' = [pc EXCEPT ![t] = "load numBytesLastSec"]
  /\ UNCHANGED <<alive, prevTopics, items, topicsModel, modelsMutex,
                 subscribed, fillVars, msg, reg, before, calls, cycleObs,
                 subFailed, recorded, displayed, searchVars>>

\* stats.numBytesLastSec += _msg.ByteSize() : the store, and the return.
OnMessageNumBytesLastSec(t) ==
  /\ pc[t] = "store numBytesLastSec"
  /\ Found(stats, msg[t].topic)
  /\ stats' = [stats EXCEPT
                 ![msg[t].topic].numBytesLastSec = AddBytes(reg[t], msg[t].size)]
  /\ modelsMutex' = Unlock(modelsMutex, t)
  /\ pc' = [pc EXCEPT ![t] = "idle"]
  /\ msg' = [msg EXCEPT ![t] = NoMsg]
  /\ reg' = [reg EXCEPT ![t] = 0]
  /\ before' = [before EXCEPT ![t] = NoCount]
  /\ UNCHANGED <<alive, prevTopics, items, topicsModel, subscribed, fillVars,
                 calls, cycleObs, subFailed, recorded, displayed, searchVars>>

OnMessage(t) ==
  \/ OnMessageCalled(t)
  \/ OnMessageLock(t)
  \/ OnMessageNotFound(t)
  \/ OnMessageFound(t)
  \/ OnMessageLoad(t, "numMessages")
  \/ OnMessageLoad(t, "numMessagesLastSec")
  \/ OnMessageLoad(t, "numBytesLastSec")
  \/ OnMessageNumMessages(t)
  \/ OnMessageNumMessagesLastSec(t)
  \/ OnMessageNumBytesLastSec(t)

(***************************************************************************)
(* ~TopicsStats, on the main thread between two timer events.  Its body is *)
(* empty; then dataPtr destroys the private data: the mutex, the stats     *)
(* map, prevTopics and the transport node.  What the node's destructor     *)
(* does with the subscriptions is the transport library's business, so     *)
(* either outcome is allowed.  A callback that is running when the members *)
(* go away uses destroyed objects: nothing is said about it afterwards.    *)
(***************************************************************************)
Destructor ==
  /\ alive
  /\ pcFill = "idle"
  /\ alive' = FALSE
  /\ keysAtStart' = DOMAIN stats
  /\ stats' = EmptyMap
  /\ items' = EmptyMap
  /\ topicsModel' = <<>>
  /\ recorded' = EmptyMap
  /\ displayed' = EmptyMap
  /\ prevTopics' = <<>>
  /\ \E dropped \in BOOLEAN :
       subscribed' = IF dropped THEN {} ELSE subscribed
  /\ pc' = [t \in Threads |-> IF pc[t] = "idle" THEN "idle" ELSE "undefined"]
  /\ UNCHANGED <<modelsMutex, fillVars, msg, reg, before, calls, prevListed,
                 prevFailed, subFailed, searchVars>>

Next ==
  \/ FillTopics
  \/ \E t \in Threads : OnMessage(t)
  \/ Destructor

Spec == Init /\ [][Next]_vars

(***************************************************************************)
(* The same program on a bus where node.Unsubscribe never returns false.   *)
(***************************************************************************)
FillTopicsEraseOk ==
  /\ FillTopicsErase
  /\ calls'[Len(calls')].ok

NextUnsubscribeOk ==
  \/ FillTopicsTopicList
  \/ FillTopicsLock
  \/ FillTopicsStillListed
  \/ FillTopicsUnsubscribe
  \/ FillTopicsEraseOk
  \/ FillTopicsRemoved
  \/ FillTopicsKnown
  \/ FillTopicsSubscribe
  \/ FillTopicsSubscribeFailed
  \/ FillTopicsTrack
  \/ FillTopicsAdded
  \/ UpdateGUIStats
  \/ FillTopicsResetStats
  \/ FillTopicsReturn
  \/ \E t \in Threads : OnMessage(t)
  \/ Destructor

SpecUnsubscribeOk == Init /\ [][NextUnsubscribeOk]_vars

(***************************************************************************)
(* A specification for a topic that is listed, goes and is listed again.   *)
(* It starts between two cycles, after a cycle that listed "/a" alone and  *)
(* subscribed to it, and after MaxMessages callbacks for "/a" returned.    *)
(***************************************************************************)
InitRelist ==
  /\ alive = TRUE
  /\ prevTopics = <<"/a">>
  /\ stats = [t \in {"/a"} |->
                [numMessages |-> MaxMessages,
                 numMessagesLastSec |-> MaxMessages,
                 numBytesLastSec |-> MaxMessages * 600]]
  /\ recorded = stats
  /\ displayed = [t \in DOMAIN stats |-> 0]
  /\ items = [t \in {"/a"} |-> GUIStats(BasicStats)]
  /\ topicsModel = <<Row("/a", "/a")>>
  /\ modelsMutex = NoThread
  /\ subscribed = {"/a"}
  /\ pcFill = "idle"
  /\ topics = <<>>
  /\ i = 0
  /\ pc = [t \in Threads |-> "idle"]
  /\ msg = [t \in Threads |-> NoMsg]
  /\ reg = [t \in Threads |-> 0]
  /\ before = [t \in Threads |-> NoCount]
  /\ search = <<>>
  /\ filtered = NoCall
  /\ painted = NoCall
  /\ calls = <<>>
  /\ prevListed = <<"/a">>
  /\ prevFailed = {}
  /\ keysAtStart = {}
  /\ subFailed = FALSE

SpecRelist == InitRelist /\ [][Next]_vars

(***************************************************************************)
(* A second specification for the bandwidth text.  It starts where a cycle *)
(* is about to call UpdateGUIStats with one tracked topic that received    *)
(* one message of any of the drawn sizes during the last second, and runs  *)
(* the rest of that cycle.                                                 *)
(***************************************************************************)
BandwidthInputs ==
  (0..Halo)
    \cup ((1000 - Halo)..(1000 + Halo))
    \cup ((1000000 - Halo)..(1000000 + Halo))
    \cup {1500, 1048575, 1048576, 2500000}

InitBandwidth ==
  /\ alive = TRUE
  /\ prevTopics = <<"/a">>
  /\ \E bytes \in BandwidthInputs :
       stats = [t \in {"/a"} |-> [numMessages |-> 1, numMessagesLastSec |-> 1,
                               numBytesLastSec |-> bytes]]
  /\ recorded = stats
  /\ displayed = [t \in DOMAIN stats |-> 0]
  /\ items = [t \in {"/a"} |-> GUIStats(BasicStats)]
  /\ topicsModel = <<Row("/a", "/a")>>
  /\ modelsMutex = Main
  /\ subscribed = {"/a"}
  /\ pcFill = "UpdateGUIStats"
  /\ topics = <<"/a">>
  /\ i = 1
  /\ pc = [t \in Threads |-> "idle"]
  /\ msg = [t \in Threads |-> NoMsg]
  /\ reg = [t \in Threads |-> 0]
  /\ before = [t \in Threads |-> NoCount]
  /\ search = <<>>
  /\ filtered = NoCall
  /\ painted = NoCall
  /\ calls = <<>>
  /\ prevListed = <<"/a">>
  /\ prevFailed = {}
  /\ keysAtStart = {"/a"}
  /\ subFailed = FALSE

NextBandwidth ==
  \/ UpdateGUIStats
  \/ FillTopicsResetStats
  \/ FillTopicsReturn

SpecBandwidth == InitBandwidth /\ [][NextBandwidth]_vars

(***************************************************************************)
(* SearchModel and ItemDelegate: the filter and the highlighting of the    *)
(* topic column.  Offsets count from 0 as in the source; the sequences     *)
(* count from 1.                                                           *)
(***************************************************************************)
\* ::toupper and QString::toUpper on the characters used here.
toupper(c) == IF c = "a" THEN "A" ELSE IF c = "b" THEN "B" ELSE c
toUpper(s) == [k \in 1..Len(s) |-> toupper(s[k])]

\* Qt::CaseInsensitive compares the case-folded characters.
foldCase(c) == IF c = "A" THEN "a" ELSE IF c = "B" THEN "b" ELSE c

\* QString::split(sep): the parts between the separators, empty ones kept.
RECURSIVE split(_, _)
split(s, sep) ==
  IF \E k \in 1..Len(s) : s[k] = sep
    THEN LET k == CHOOSE j \in 1..Len(s) :
                    s[j] = sep /\ \A h \in 1..(j - 1) : s[h] # sep
         IN <<SubSeq(s, 1, k - 1)>> \o split(SubSeq(s, k + 1, Len(s)), sep)
    ELSE <<s>>

\* QString::contains(word, Qt::CaseInsensitive).
contains(text, word) ==
  \E p \in 0..(Len(text) - Len(word)) :
    \A k \in 1..Len(word) : foldCase(text[p + k]) = foldCase(word[k])

\* sourceModel()->data(index(row, 0), DISPLAY_NAME).toString(): the name the
\* topic item of the row carries, empty where the row has no such item.
DisplayName(rows, row) ==
  IF row < Len(rows) THEN rows[row + 1].topicItem ELSE <<>>

\* SearchModel::filterAcceptsRowItself.
filterAcceptsRowItself(rows, srcRow, word) ==
  contains(DisplayName(rows, srcRow), word)

\* SearchModel::filterAcceptsRow: the loop returns false at the first word
\* that is not empty and not contained.
filterAcceptsRow(rows, srcRow, query) ==
  IF Len(query) = 0
    THEN TRUE
    ELSE LET words == split(query, " ")
         IN \A k \in 1..Len(words) :
              Len(words[k]) = 0 \/ filterAcceptsRowItself(rows, srcRow, words[k])

\* std::string::npos and std::string::find(word, pos).
npos == 0 - 1
find(text, word, pos) ==
  LET hits == {p \in pos..(Len(text) - Len(word)) :
                 \A k \in 1..Len(word) : text[p + k] = word[k]}
  IN IF hits = {} THEN npos
     ELSE CHOOSE p \in hits : \A q \in hits : p <= q

\* std::string::substr(pos, len), cut at the end of the text.
substr(text, pos, len) ==
  SubSeq(text, pos + 1, IF pos + len < Len(text) THEN pos + len ELSE Len(text))

\* paint: wordsUpper, the non-empty parts of search.toUpper().split(" ").
wordsUpper(query) ==
  SelectSeq(split(toUpper(query), " "), LAMBDA word : Len(word) > 0)

\* paint, the while loop of one word: bold[pos] = max(bold[pos], size) for
\* every occurrence, where a new key starts at 0.
RECURSIVE findAll(_, _, _, _)
findAll(bold, upperText, word, pos) ==
  IF pos = npos
    THEN bold
    ELSE LET old == IF pos \in DOMAIN bold THEN bold[pos] ELSE 0
             new == IF old < Len(word) THEN Len(word) ELSE old
         IN findAll(Put(bold, pos, new), upperText, word,
                    find(upperText, word, pos + 1))

\* paint, the for_each over wordsUpper.
RECURSIVE boldMap(_, _, _)
boldMap(bold, upperText, words) ==
  IF Len(words) = 0
    THEN bold
    ELSE boldMap(findAll(bold, upperText, Head(words),
                         find(upperText, Head(words), 0)),
                 upperText, Tail(words))

\* One drawText call: the offset the text starts at, the text and the font.
Run(pos, text, isBold) == [pos |-> pos, text |-> text, bold |-> isBold]

\* paint, a bold text that starts before renderPos and ends after it: start
\* and len are moved to the part not yet rendered.
NotAdjusted(start, len, renderPos) == [start |-> start, len |-> len]
Adjusted(start, len, renderPos) ==
  [start |-> renderPos, len |-> (start + len) - renderPos]

\* paint, the loop over the bold map in the order of its keys: the plain
\* text up to the start, then the bold text.  st is renderPos and the runs
\* drawn so far.
RECURSIVE paintLoop(_, _, _, _)
paintLoop(text, bold, keys, st) ==
  IF keys = {}
    THEN st
    ELSE LET iter == CHOOSE p \in keys : \A q \in keys : p <= q
             rest == keys \ {iter}
         IN IF st.renderPos > iter /\ ~(iter + bold[iter] > st.renderPos)
              THEN paintLoop(text, bold, rest, st)
              ELSE LET b == IF st.renderPos > iter
                              THEN Adjusted(iter, bold[iter], st.renderPos)
                              ELSE [start |-> iter, len |-> bold[iter]]
                       plain == Run(st.renderPos,
                                    substr(text, st.renderPos,
                                           b.start - st.renderPos),
                                    FALSE)
                       strong == Run(b.start, substr(text, b.start, b.len),
                                     TRUE)
                   IN paintLoop(text, bold, rest,
                                [renderPos |-> b.start + b.len,
                                 runs |-> st.runs \o <<plain, strong>>])

\* ItemDelegate::paint: the runs of text drawn for a topic name.  Nothing
\* is drawn for an empty name.
paint(topicName, query) ==
  IF Len(topicName) = 0
    THEN <<>>
    ELSE LET upperText == toUpper(topicName)
             bold == boldMap(EmptyMap, upperText, wordsUpper(query))
             st == paintLoop(topicName, bold, DOMAIN bold,
                             [renderPos |-> 0, runs |-> <<>>])
         IN IF st.renderPos < Len(topicName)
              THEN Append(st.runs,
                          Run(st.renderPos,
                              substr(topicName, st.renderPos, Len(topicName)),
                              FALSE))
              ELSE st.runs

\* TopicsStats::UpdateSearch -> SearchModel::SetSearch, as the search field
\* reports its text after each character typed.
UpdateSearch ==
  /\ alive
  /\ Len(search) < MaxSearchLen
  /\ \E c \in SearchChars : search' = Append(search, c)
  /\ filtered' = NoCall
  /\ painted' = NoCall
  /\ UNCHANGED <<alive, prevTopics, stats, items, topicsModel, modelsMutex,
                 subscribed, fillVars, threadVars, calls, cycleObs, subFailed,
                 recorded, displayed>>

\* The proxy model asks SearchModel::filterAcceptsRow about a source row.
SearchModelFilterAcceptsRow(srcRow) ==
  /\ alive
  /\ srcRow < Len(topicsModel)
  /\ filtered' = [row |-> srcRow,
                  accepted |-> filterAcceptsRow(topicsModel, srcRow, search)]
  /\ painted' = NoCall
  /\ UNCHANGED <<alive, prevTopics, stats, items, topicsModel, modelsMutex,
                 subscribed, fillVars, threadVars, calls, cycleObs, subFailed,
                 recorded, displayed, search>>

\* The view paints the topic cell of a row it shows.  The rows it shows are
\* those the filter accepted when it last ran, which can be before the
\* search text changed, so any row can be painted with any search text.
ItemDelegatePaint(row) ==
  /\ alive
  /\ row < Len(topicsModel)
  /\ painted' = [row |-> row,
                 runs |-> paint(DisplayName(topicsModel, row), search)]
  /\ filtered' = NoCall
  /\ UNCHANGED <<alive, prevTopics, stats, items, topicsModel, modelsMutex,
                 subscribed, fillVars, threadVars, calls, cycleObs, subFailed,
                 recorded, displayed, search>>

(***************************************************************************)
(* A third specification for the search field.  It starts after a first    *)
(* cycle that listed one or two topics: either every Subscribe succeeded   *)
(* and each topic has its row, or, of two topics of one letter, the first  *)
(* Subscribe failed and the second left a row without a topic item behind  *)
(* a blank row.  Then the user types and the view filters and paints.      *)
(***************************************************************************)
Names == UNION {[1..n -> NameChars] : n \in 1..MaxNameChars}

NameListings ==
  {<<n>> : n \in Names}
    \cup {s \in Names \X Names :
            s[1] # s[2] /\ Len(s[1]) + Len(s[2]) <= MaxNameChars}

InitSearch ==
  /\ alive = TRUE
  /\ \E listing \in NameListings, firstFailed \in BOOLEAN :
       /\ firstFailed => (Len(listing) = 2 /\ Len(listing[1]) = 1
                                             /\ Len(listing[2]) = 1)
       /\ prevTopics = listing
       /\ prevListed = listing
       /\ subFailed = firstFailed
       /\ prevFailed = IF firstFailed THEN {listing[1]} ELSE {}
       /\ subscribed = IF firstFailed THEN {listing[2]} ELSE Range(listing)
       /\ stats = [t \in subscribed |-> BasicStats]
       /\ topicsModel =
            IF firstFailed
              THEN <<Row(<<>>, <<>>), Row(<<>>, listing[2])>>
              ELSE [k \in 1..Len(listing) |-> Row(listing[k], listing[k])]
  /\ recorded = stats
  /\ displayed = [t \in DOMAIN stats |-> 0]
  /\ items = [t \in DOMAIN stats |-> GUIStats(BasicStats)]
  /\ modelsMutex = NoThread
  /\ pcFill = "idle"
  /\ topics = <<>>
  /\ i = 0
  /\ pc = [t \in Threads |-> "idle"]
  /\ msg = [t \in Threads |-> NoMsg]
  /\ reg = [t \in Threads |-> 0]
  /\ before = [t \in Threads |-> NoCount]
  /\ calls = <<>>
  /\ keysAtStart = {}
  /\ search = <<>>
  /\ filtered = NoCall
  /\ painted = NoCall

NextSearch ==
  \/ UpdateSearch
  \/ \E srcRow \in 0..1 : SearchModelFilterAcceptsRow(srcRow)
  \/ \E row \in 0..1 : ItemDelegatePaint(row)

SpecSearch == InitSearch /\ [][NextSearch]_vars

(***************************************************************************)
(* Properties.                                                             *)
(***************************************************************************)
\* The Subscribe / Unsubscribe calls of the log that name one topic.
CallsOf(op, topic) ==
  {k \in 1..Len(calls) : calls[k].op = op /\ calls[k].topic = topic}

\* No callback is between finding its entry and returning.
Quiet == \A t \in Threads : pc[t] \in {"idle", "lock", "find"}

\* The positions of a callback after it found its entry.
Recording ==
  {"load numMessages", "store numMessages", "load numMessagesLastSec",
   "store numMessagesLastSec", "load numBytesLastSec", "store numBytesLastSec"}

\* C1: when every Subscribe call so far has succeeded, at the end of each
\* reconcile cycle the keys of the stats map are exactly the topics listed in
\* that cycle, and they stay so until the next cycle takes the mutex.
C1_KeysAreListing ==
  /\ (pcFill = "return" /\ ~subFailed) => DOMAIN stats = Range(topics)
  /\ (alive /\ pcFill \in {"idle", "lock"} /\ ~subFailed)
       => DOMAIN stats = Range(prevListed)

\* C1 witness: a cycle without any failed Subscribe ends having removed topic
\* /a and added topic /b.
C1_Witness ==
  /\ pcFill = "return"
  /\ ~subFailed
  /\ prevTopics = <<"/a">>
  /\ topics = <<"/b">>
  /\ DOMAIN stats = {"/b"}

\* C2: a topic whose Subscribe failed in the last cycle and that is listed
\* again in this cycle has Subscribe called again by the end of this cycle.
C2_FailedSubscribeRetried ==
  pcFill = "return" =>
    \A topic \in prevFailed \cap Range(topics) : CallsOf("Subscribe", topic) # {}

\* C3: whenever no callback is in the middle of its updates, every entry has
\* counted exactly the callbacks that found it: numMessages all of them,
\* numMessagesLastSec and numBytesLastSec those since the last reset and the
\* sum of their sizes.
C3_NoLostUpdate ==
  Quiet => \A topic \in DOMAIN stats : stats[topic] = recorded[topic]

\* C3 witness: two callbacks for one topic have been counted in the same
\* window.
C3_Witness ==
  /\ Quiet
  /\ \E topic \in DOMAIN stats :
       /\ stats[topic].numMessagesLastSec = 2
       /\ stats[topic].numBytesLastSec = 600 + 600

\* C4: a callback that found its entry returns with that entry's numMessages
\* and numMessagesLastSec one higher and numBytesLastSec higher by the payload
\* size than it found them, and none of its steps changes another entry, the
\* key set or prevTopics.
C4_RecordEffect ==
  [][\A t \in Threads :
       (alive' /\ pc[t] \in Recording /\ pc'[t] # pc[t]) =>
         /\ DOMAIN stats' = DOMAIN stats
         /\ prevTopics' = prevTopics
         /\ \A other \in DOMAIN stats \ {msg[t].topic} :
              stats'[other] = stats[other]
         /\ pc'[t] = "idle" =>
              stats'[msg[t].topic] =
                [numMessages |-> before[t].numMessages + 1,
                 numMessagesLastSec |-> before[t].numMessagesLastSec + 1,
                 numBytesLastSec |-> before[t].numBytesLastSec + msg[t].size]]_vars

\* C4 witness: a callback is at its last store while another topic has an
\* entry with messages counted.
C4_Witness ==
  \E t \in Threads :
    /\ pc[t] = "store numBytesLastSec"
    /\ stats[msg[t].topic].numMessages = before[t].numMessages + 1
    /\ \E other \in DOMAIN stats \ {msg[t].topic} : stats[other].numMessages > 0

\* C5: a callback whose topic has no entry returns (the mutex released)
\* without changing the stats map, the items or prevTopics.
C5_OrphanMessageIgnored ==
  [][\A t \in Threads :
       (alive' /\ pc[t] = "find" /\ msg[t].topic \notin DOMAIN stats
          /\ pc'[t] # pc[t]) =>
         /\ stats' = stats
         /\ items' = items
         /\ prevTopics' = prevTopics
         /\ pc'[t] = "idle"
         /\ modelsMutex' = NoThread]_vars

\* C5 witness: a callback holds the mutex for a topic that has no entry while
\* another topic has one.
C5_Witness ==
  \E t \in Threads :
    /\ alive
    /\ pc[t] = "find"
    /\ modelsMutex = t
    /\ msg[t].topic \notin DOMAIN stats
    /\ DOMAIN stats # {}

\* C6: ResetStats zeroes numMessagesLastSec and numBytesLastSec of every entry
\* and changes neither any numMessages nor the key set.
C6_ResetStats ==
  [][(pcFill = "ResetStats" /\ pcFill' = "return") =>
       /\ DOMAIN stats' = DOMAIN stats
       /\ \A topic \in DOMAIN stats :
            /\ stats'[topic].numMessagesLastSec = 0
            /\ stats'[topic].numBytesLastSec = 0
            /\ stats'[topic].numMessages = stats[topic].numMessages]_vars

\* C6 witness: ResetStats has run on an entry whose window, as just shown,
\* held messages.
C6_Witness ==
  /\ pcFill = "return"
  /\ \E topic \in DOMAIN stats :
       /\ items[topic].numMessagesLastSecItem > 0
       /\ stats[topic].numMessages > 0
       /\ stats[topic].numMessagesLastSec = 0
       /\ stats[topic].numBytesLastSec = 0

\* C7: a cycle that lists the same topics as the cycle before it makes no
\* Subscribe and no Unsubscribe call and ends with the keys it began with.
C7_UnchangedListingNoChurn ==
  (pcFill = "return" /\ Range(topics) = Range(prevListed)) =>
    (calls = <<>> /\ DOMAIN stats = keysAtStart)

\* C7 witness: a second cycle over the same two topics is ending.
C7_Witness ==
  /\ pcFill = "return"
  /\ Len(topics) = 2
  /\ Range(topics) = Range(prevListed)
  /\ calls = <<>>

\* C8: once the object is destroyed the stats map is empty and Unsubscribe
\* was called exactly once for every topic that had an entry.
C8_ShutdownUnsubscribes ==
  ~alive =>
    /\ stats = EmptyMap
    /\ \A topic \in keysAtStart : Cardinality(CallsOf("Unsubscribe", topic)) = 1

\* C9: the main thread does not own the mutex while it is inside
\* node.Subscribe or node.Unsubscribe.
C9_NoBusCallUnderMutex ==
  pcFill \in {"Subscribe", "Unsubscribe"} => modelsMutex # Main

\* C10: the bandwidth text made from a window of b bytes is b with unit B/s
\* below 1000, b / 1000 with unit KB/s from 1000 up to 999999, and
\* b / 1000000 with unit MB/s from 1000000 on.
C10_BandwidthUnits ==
  pcFill = "ResetStats" =>
    \A topic \in DOMAIN stats :
      LET b == stats[topic].numBytesLastSec
          shown == items[topic].numBytesLastSecItem
      IN /\ b < 1000 =>
              (shown.units = "B/s" /\ shown.whole = b /\ shown.frac = 0)
         /\ (1000 <= b /\ b < 1000000) =>
              /\ shown.units = "KB/s"
              /\ shown.frac % 1000 = 0
              /\ shown.whole * 1000 + shown.frac \div 1000 = b
         /\ b >= 1000000 =>
              /\ shown.units = "MB/s"
              /\ shown.whole * 1000000 + shown.frac = b

\* C10 witness: a window of exactly 1000 bytes is shown as 1.000000 KB/s.
C10_Witness ==
  /\ pcFill = "ResetStats"
  /\ \E topic \in DOMAIN stats :
       /\ stats[topic].numBytesLastSec = 1000
       /\ items[topic].numBytesLastSecItem =
            [whole |-> 1, frac |-> 0, units |-> "KB/s"]

(***************************************************************************)
(* Properties of the counters and of the order inside a cycle.             *)
(***************************************************************************)
\* C15: no step lowers the numMessages of an entry that is in the stats map
\* before and after the step.
C15_TotalNeverDecreases ==
  [][\A topic \in DOMAIN stats \cap DOMAIN stats' :
       stats'[topic].numMessages >= stats[topic].numMessages]_vars

\* C15 witness: an entry that counted a message in an earlier second and
\* another one in this second has been through UpdateGUIStats and ResetStats
\* again.
C15_Witness ==
  /\ pcFill = "return"
  /\ \E topic \in DOMAIN stats :
       /\ stats[topic].numMessages = 2
       /\ items[topic].numMessagesLastSecItem = 1
       /\ stats[topic].numMessagesLastSec = 0

\* C16: in every state, numMessagesLastSec of every entry is at most its
\* numMessages.
C16_WindowAtMostTotal ==
  \A topic \in DOMAIN stats :
    stats[topic].numMessagesLastSec <= stats[topic].numMessages

\* C16 witness: a callback has stored numMessages and not yet
\* numMessagesLastSec, on an entry whose window was reset after an earlier
\* message, while a cycle waits for the mutex.
C16_Witness ==
  \E t \in Threads :
    /\ pc[t] = "store numMessagesLastSec"
    /\ pcFill = "lock"
    /\ stats[msg[t].topic].numMessages = 2
    /\ stats[msg[t].topic].numMessagesLastSec = 0

\* The step is the return of an Unsubscribe call or removes an entry, and
\* the Subscribe calls and new entries of the cycle so far.
RemovalStep ==
  \/ /\ Len(calls') = Len(calls) + 1
     /\ calls'[Len(calls')].op = "Unsubscribe"
  \/ \E topic \in DOMAIN stats : topic \notin DOMAIN stats'
SubscribeCalls == {k \in 1..Len(calls) : calls[k].op = "Subscribe"}

\* C17: inside a cycle, when an Unsubscribe call returns or an entry is
\* removed, the cycle has made no Subscribe call and created no entry yet.
C17_RemovalsBeforeAdditions ==
  [][(pcFill # "idle" /\ RemovalStep) =>
       (SubscribeCalls = {} /\ DOMAIN stats \subseteq keysAtStart)]_vars

\* C17 witness: a cycle that unsubscribed from /b and then subscribed to /a
\* is ending.
C17_Witness ==
  /\ pcFill = "return"
  /\ Len(calls) = 2
  /\ calls[1].op = "Unsubscribe" /\ calls[1].topic = "/b"
  /\ calls[2] = [op |-> "Subscribe", topic |-> "/a", ok |-> TRUE]
  /\ DOMAIN stats = {"/a"}

\* The Unsubscribe calls of the cycle that returned false.
FailedUnsubscribes ==
  {k \in 1..Len(calls) : calls[k].op = "Unsubscribe" /\ ~calls[k].ok}

\* C18: a cycle in which an Unsubscribe call failed ends with the entry of
\* every topic that left the listing removed after an Unsubscribe call for
\* it, with a Subscribe call made for every topic that joined the listing,
\* and with the items updated and the windows reset.
C18_UnsubscribeFailureGoesOn ==
  (pcFill = "return" /\ FailedUnsubscribes # {}) =>
    /\ \A topic \in Range(prevTopics) \ Range(topics) :
         CallsOf("Unsubscribe", topic) # {} /\ topic \notin DOMAIN stats
    /\ \A topic \in Range(topics) \ Range(prevTopics) :
         CallsOf("Subscribe", topic) # {}
    /\ DOMAIN items = DOMAIN stats
    /\ \A topic \in DOMAIN stats :
         /\ items[topic].numMessagesItem = stats[topic].numMessages
         /\ stats[topic].numMessagesLastSec = 0
         /\ stats[topic].numBytesLastSec = 0

\* C18 witness: a cycle ends in which Unsubscribe failed for /a, the first
\* of two topics that left the listing, and succeeded for /b.
C18_Witness ==
  /\ pcFill = "return"
  /\ Len(calls) = 2
  /\ calls[1] = [op |-> "Unsubscribe", topic |-> "/a", ok |-> FALSE]
  /\ calls[2] = [op |-> "Unsubscribe", topic |-> "/b", ok |-> TRUE]
  /\ stats = EmptyMap
  /\ subscribed = {"/a"}

\* C19: on a bus where Unsubscribe never fails, at the end of every cycle
\* the topics with an entry are the topics with a live subscription, and no
\* topic whose Subscribe call failed in the cycle has an entry.
C19_EntryIffSubscription ==
  pcFill = "return" =>
    /\ DOMAIN stats = subscribed
    /\ FailedSubscribes(calls) \cap DOMAIN stats = {}

\* C19 witness: a cycle ends in which Subscribe failed for one topic and
\* succeeded for the other.
C19_Witness ==
  /\ pcFill = "return"
  /\ FailedSubscribes(calls) = {"/a"}
  /\ DOMAIN stats = {"/b"}
  /\ subscribed = {"/b"}

\* C20: while a tick stands between UpdateGUIStats and ResetStats, the
\* items show the frequency and bandwidth of the current window values,
\* which count every callback that found the entry since the last reset; no
\* step other than the reset changes the stats map, and the reset zeroes
\* the windows.
C20_TickReadsThenResets ==
  [][pcFill = "ResetStats" =>
       /\ \A topic \in DOMAIN stats :
            /\ items[topic].numMessagesLastSecItem
                 = stats[topic].numMessagesLastSec
            /\ items[topic].numBytesLastSecItem
                 = Bandwidth(stats[topic].numBytesLastSec)
            /\ stats[topic].numMessagesLastSec
                 = recorded[topic].numMessagesLastSec
            /\ stats[topic].numBytesLastSec = recorded[topic].numBytesLastSec
       /\ pcFill' = "ResetStats" => stats' = stats
       /\ pcFill' # "ResetStats" =>
            /\ pcFill' = "return"
            /\ \A topic \in DOMAIN stats' :
                 /\ stats'[topic].numMessagesLastSec = 0
                 /\ stats'[topic].numBytesLastSec = 0]_vars

\* C20 witness: a tick stands between UpdateGUIStats and ResetStats with a
\* window of one message shown while another callback waits for the mutex.
C20_Witness ==
  /\ pcFill = "ResetStats"
  /\ \E t \in Threads : pc[t] = "lock"
  /\ \E topic \in DOMAIN stats :
       /\ stats[topic].numMessagesLastSec = 1
       /\ items[topic].numMessagesLastSecItem = 1
       /\ items[topic].numBytesLastSecItem.whole = 600

(***************************************************************************)
(* Properties of an entry over several cycles.                             *)
(***************************************************************************)
\* A callback stands between its store of numMessages and its store of
\* numMessagesLastSec of the topic's entry.
HalfCounted(topic) ==
  \E t \in Threads :
    /\ pc[t] \in {"load numMessagesLastSec", "store numMessagesLastSec"}
    /\ msg[t].topic = topic

\* C21: for every topic with a stats entry, outside a callback's pair of
\* increments and outside the tick's step between display and reset, the
\* total numMessages is the sum of the frequencies displayed for the topic in
\* all ticks since its entry was created plus the current window
\* numMessagesLastSec: each recorded message is counted in exactly one
\* displayed frequency or is still in the window.
C21_TotalIsDisplayedPlusWindow ==
  /\ DOMAIN displayed = DOMAIN stats
  /\ \A topic \in DOMAIN stats :
       (pcFill # "ResetStats" /\ ~HalfCounted(topic)) =>
          stats[topic].numMessages
            = displayed[topic] + stats[topic].numMessagesLastSec

\* C21 witness: between two ticks an entry has a total of two messages, one
\* displayed by an earlier tick and one recorded since in the window.
C21_Witness ==
  /\ pcFill = "idle"
  /\ Quiet
  /\ \E topic \in DOMAIN stats :
       /\ stats[topic].numMessages = 2
       /\ displayed[topic] = 1
       /\ stats[topic].numMessagesLastSec = 1

\* C22: at the end of every reconcile cycle the table has one row per key
\* of the stats map, and the topic names held by the items of column 0 are
\* exactly those keys.
C22_RowsAreKeys ==
  pcFill = "return" =>
    /\ Len(topicsModel) = Cardinality(DOMAIN stats)
    /\ {topicsModel[k].topicItem : k \in 1..Len(topicsModel)} = DOMAIN stats

\* C23: whenever a topic gets a stats entry, in its first cycle or in a cycle
\* that lists it again after it had gone from the listing, the entry has
\* numMessages, numMessagesLastSec and numBytesLastSec all 0, and it is still
\* so while the cycle that listed the topic anew goes on: nothing of an
\* earlier entry of the topic is carried over.  At the end of the cycle
\* every topic whose Subscribe call succeeded was listed anew and has such
\* an entry.
C23_RelistedEntryIsFresh ==
  [][/\ \A topic \in DOMAIN stats' \ DOMAIN stats :
          /\ stats'[topic].numMessages = 0
          /\ stats'[topic].numMessagesLastSec = 0
          /\ stats'[topic].numBytesLastSec = 0
     /\ \A topic \in DOMAIN stats' \ Range(prevTopics') :
          /\ stats'[topic].numMessages = 0
          /\ stats'[topic].numMessagesLastSec = 0
          /\ stats'[topic].numBytesLastSec = 0
     /\ pcFill' = "return" =>
          \A k \in 1..Len(calls') :
            (calls'[k].op = "Subscribe" /\ calls'[k].ok) =>
               /\ calls'[k].topic \in Range(topics') \ Range(prevTopics')
               /\ calls'[k].topic \in DOMAIN stats']_vars

\* C23 witness: "/a", whose entry had counted MaxMessages messages, was not
\* in the listing of the previous cycle, is in the listing of this one, and
\* the add loop has just given it an entry with three zeros.
C23_Witness ==
  /\ pcFill = "add"
  /\ "/a" \in Range(topics)
  /\ "/a" \notin Range(prevTopics)
  /\ "/a" \in DOMAIN stats
  /\ stats["/a"].numMessages = 0
  /\ stats["/a"].numMessagesLastSec = 0
  /\ stats["/a"].numBytesLastSec = 0

(***************************************************************************)
(* Properties of the search field.                                         *)
(***************************************************************************)
\* Whitespace, and two characters that are the same letter in any case.
IsWhitespace(c) == c \in {" ", "\t"}
SameLetter(c, d) == c = d \/ {c, d} = {"a", "A"} \/ {c, d} = {"b", "B"}

\* The words of a query: its longest stretches without whitespace.
Words(query) ==
  {SubSeq(query, r[1], r[2]) :
     r \in {x \in (1..Len(query)) \X (1..Len(query)) :
              /\ x[1] <= x[2]
              /\ \A k \in x[1]..x[2] : ~IsWhitespace(query[k])
              /\ x[1] = 1 \/ IsWhitespace(query[x[1] - 1])
              /\ x[2] = Len(query) \/ IsWhitespace(query[x[2] + 1])}}

\* The word occurs in the label at offset p, whatever the case.
OccursAt(word, label, p) ==
  /\ p + Len(word) <= Len(label)
  /\ \A k \in 1..Len(word) : SameLetter(label[p + k], word[k])

IsSubstring(word, label) == \E p \in 0..Len(label) : OccursAt(word, label, p)

\* The label of the row of the last filterAcceptsRow / paint call.
FilteredLabel == topicsModel[filtered.row + 1].topicItem
PaintedLabel == topicsModel[painted.row + 1].topicItem

\* C11: the filter accepts a row exactly when the search text is empty or
\* every word of it is a substring, whatever the case, of the row's own
\* label.
C11_FilterAcceptsOwnLabel ==
  filtered.row >= 0 =>
    (filtered.accepted <=>
       (Len(search) = 0
          \/ \A word \in Words(search) : IsSubstring(word, FilteredLabel)))

\* C12: a search text made of whitespace only accepts every row, and a
\* search text of two words with one tab between them accepts exactly the
\* rows whose label contains both words.
C12_WhitespaceSeparatesWords ==
  filtered.row >= 0 =>
    /\ (\A k \in 1..Len(search) : IsWhitespace(search[k])) => filtered.accepted
    /\ \A k \in 2..(Len(search) - 1) :
         (/\ search[k] = "\t"
          /\ \A h \in (1..Len(search)) \ {k} : ~IsWhitespace(search[h]))
           => (filtered.accepted <=>
                 /\ IsSubstring(SubSeq(search, 1, k - 1), FilteredLabel)
                 /\ IsSubstring(SubSeq(search, k + 1, Len(search)),
                                FilteredLabel))

\* The runs of a paint call drawn in the bold font, in paint order, and the
\* offsets a run covers.
BoldRuns == SelectSeq(painted.runs, LAMBDA run : run.bold)
Covers(run) == {run.pos + k : k \in 0..(Len(run.text) - 1)}

\* C13: the bold runs of a paint call are not empty, start at increasing
\* offsets and do not overlap, and together cover exactly the offsets of the
\* label that lie in an occurrence, whatever the case, of a word of the
\* search text.
C13_HighlightSpans ==
  painted.row >= 0 =>
    /\ \A k \in 1..Len(BoldRuns) : Len(BoldRuns[k].text) > 0
    /\ \A j, k \in 1..Len(BoldRuns) :
         j < k => BoldRuns[j].pos + Len(BoldRuns[j].text) <= BoldRuns[k].pos
    /\ UNION {Covers(BoldRuns[k]) : k \in 1..Len(BoldRuns)}
         = {p \in 0..(Len(PaintedLabel) - 1) :
              \E word \in Words(search), q \in 0..p :
                OccursAt(word, PaintedLabel, q) /\ p < q + Len(word)}

\* The texts of the first n runs of a paint call, one after another.
RECURSIVE Drawn(_)
Drawn(n) == IF n = 0 THEN <<>> ELSE Drawn(n - 1) \o painted.runs[n].text

\* C14: the texts of the runs of a paint call, in paint order, make up the
\* label, and every run starts at the offset where the run before it ended.
C14_PaintDrawsLabel ==
  painted.row >= 0 =>
    /\ Drawn(Len(painted.runs)) = PaintedLabel
    /\ \A n \in 1..Len(painted.runs) :
         painted.runs[n].pos = Len(Drawn(n - 1))

\* C14 witness: the label AAAb painted for the search text "aa": the word
\* occurs at offsets 0 and 1, the second occurrence is cut to its last
\* letter, and the b is the remainder.
C14_Witness ==
  /\ painted.row >= 0
  /\ search = <<"a", "a">>
  /\ PaintedLabel = <<"A", "A", "A", "b">>
  /\ Len(painted.runs) = 5
  /\ painted.runs[4] = Run(2, <<"A">>, TRUE)
  /\ painted.runs[5] = Run(3, <<"b">>, FALSE)

====
